---- MODULE Spec2Model ----
(***************************************************************************)
(* Model of the Incus backup scripts incus-backup.py and incus-bckup.py.   *)
(* A run of main() is a state machine over the script's position, the      *)
(* commands it issues to the incus binary and the files it removes.        *)
(* Text (file names, timestamps, table lines) is a sequence of             *)
(* one-character strings, so that split/strip/strptime/strftime are        *)
(* computed as Python computes them.                                       *)
(***************************************************************************)
EXTENDS Integers, Sequences, FiniteSets, TLC

(***************************************************************************)
(* Bounds of the model.                                                    *)
(***************************************************************************)
MaxRows  == 2    \* data rows of the 'incus list' table
MaxSnaps == 2    \* entries of one 'incus snapshot list' answer
MaxFiles == 2    \* files found in the backup directory besides this run's

(***************************************************************************)
(* Configuration variables of the scripts.                                 *)
(***************************************************************************)
RETENTION_DAYS == 7
BACKUP_RETENTION_DAYS == 14
BACKUP_DIR == <<"/","m","n","t","/","i","c","e","/","i","n","c","u","s","-","v","m","s","/">>

(***************************************************************************)
(* A local variable: F at the value of e, with e computed once.            *)
(***************************************************************************)
Let(e, F(_)) == CHOOSE y \in { F(x) : x \in {e} } : TRUE

(***************************************************************************)
(* Python str helpers.                                                     *)
(***************************************************************************)
Digits == {"0","1","2","3","4","5","6","7","8","9"}
DigitSeq == <<"0","1","2","3","4","5","6","7","8","9">>
DigitVal(c) == (CHOOSE k \in 1..10 : DigitSeq[k] = c) - 1

RECURSIVE NumTo(_, _, _)
\* int(s[i..j]) of decimal digits
NumTo(s, i, j) == IF j < i THEN 0 ELSE 10 * NumTo(s, i, j - 1) + DigitVal(s[j])
\* int() of a string of decimal digits
Num(s) == NumTo(s, 1, Len(s))

AllDigits(s, i, w) == /\ i + w - 1 <= Len(s)
                      /\ \A k \in i..(i + w - 1) : s[k] \in Digits

\* str.startswith / str.endswith
startswith(s, p) == Len(s) >= Len(p) /\ SubSeq(s, 1, Len(p)) = p
endswith(s, p) == Len(s) >= Len(p) /\ SubSeq(s, Len(s) - Len(p) + 1, Len(s)) = p

\* 'c' in s
contains(s, c) == \E k \in 1..Len(s) : s[k] = c

RECURSIVE split(_, _)
\* str.split(sep) for a one-character separator: the list of the pieces
split(s, sep) ==
    Let(s, LAMBDA t :
        IF ~contains(t, sep) THEN <<t>>
        ELSE Let(CHOOSE j \in 1..Len(t) : t[j] = sep /\ \A h \in 1..(j - 1) : t[h] # sep,
                 LAMBDA k : <<SubSeq(t, 1, k - 1)>> \o split(SubSeq(t, k + 1, Len(t)), sep)))

\* str.split(sep, 1): at most one split, at the first separator
split1(s, sep) ==
    Let(s, LAMBDA t :
        IF ~contains(t, sep) THEN <<t>>
        ELSE Let(CHOOSE j \in 1..Len(t) : t[j] = sep /\ \A h \in 1..(j - 1) : t[h] # sep,
                 LAMBDA k : <<SubSeq(t, 1, k - 1), SubSeq(t, k + 1, Len(t))>>))

RECURSIVE lstrip(_, _)
lstrip(s, c) ==
    Let(s, LAMBDA t : IF Len(t) > 0 /\ t[1] = c THEN lstrip(Tail(t), c) ELSE t)

RECURSIVE rstrip(_, _)
rstrip(s, c) ==
    Let(s, LAMBDA t : IF Len(t) > 0 /\ t[Len(t)] = c
                      THEN rstrip(SubSeq(t, 1, Len(t) - 1), c) ELSE t)

\* str.strip() (whitespace is the blank in the modelled texts)
strip(s) == rstrip(lstrip(s, " "), " ")

RECURSIVE ljust(_, _, _)
ljust(s, w, c) ==
    Let(s, LAMBDA t : IF Len(t) >= w THEN t ELSE ljust(t \o <<c>>, w, c))

RECURSIVE Pad(_, _)
\* '%0wd' % n
Pad(n, w) ==
    Let(<<n, w>>, LAMBDA a : IF a[2] = 0 THEN <<>>
                             ELSE Pad(a[1] \div 10, a[2] - 1) \o <<DigitSeq[(a[1] % 10) + 1]>>)

(***************************************************************************)
(* datetime: an instant is [secs, us], secs counted from 2000-01-01.       *)
(***************************************************************************)
IsLeap(y) == (y % 4 = 0 /\ y % 100 # 0) \/ y % 400 = 0

DaysInMonth(y, m) == IF m = 2 THEN (IF IsLeap(y) THEN 29 ELSE 28)
                     ELSE IF m \in {4, 6, 9, 11} THEN 30 ELSE 31

\* days from 2000-01-01 to the civil date y-m-d
DaysFromCivil(y, m, d) ==
    LET yy  == IF m <= 2 THEN y - 1 ELSE y
        era == yy \div 400
        yoe == yy - era * 400
        mp  == (m + 9) % 12
        doy == (153 * mp + 2) \div 5 + d - 1
        doe == yoe * 365 + yoe \div 4 - yoe \div 100 + doy
    IN era * 146097 + doe - 730425

\* the civil date [Y, m, d] of a day number
CivilFromDays(n) ==
    LET z   == n + 730425
        era == z \div 146097
        doe == z - era * 146097
        yoe == (doe - doe \div 1460 + doe \div 36524 - doe \div 146096) \div 365
        doy == doe - (365 * yoe + yoe \div 4 - yoe \div 100)
        mp  == (5 * doy + 2) \div 153
        d   == doy - (153 * mp + 2) \div 5 + 1
        m   == IF mp < 10 THEN mp + 3 ELSE mp - 9
        y   == yoe + era * 400 + (IF m <= 2 THEN 1 ELSE 0)
    IN [Y |-> y, m |-> m, d |-> d]

\* datetime(Y, m, d, H, M, S, us)
datetime(Y, m, d, H, M, S, us) ==
    [secs |-> DaysFromCivil(Y, m, d) * 86400 + H * 3600 + M * 60 + S, us |-> us]

\* a < b on datetimes
DtLess(a, b) == a.secs < b.secs \/ (a.secs = b.secs /\ a.us < b.us)

\* dt - timedelta(days=n)
MinusDays(dt, n) == [dt EXCEPT !.secs = @ - n * 86400]

\* a format that goes on to the microseconds: "%Y%m%d%H%M%S%f"
strftime_micro(dt) ==
    Let(CivilFromDays(dt.secs \div 86400), LAMBDA c :
    Let(dt.secs % 86400, LAMBDA sod :
        Pad(c.Y, 4) \o Pad(c.m, 2) \o Pad(c.d, 2)
        \o Pad(sod \div 3600, 2) \o Pad((sod % 3600) \div 60, 2) \o Pad(sod % 60, 2)
        \o Pad(dt.us, 6)))

\* dt.strftime("%Y%m%d%H%M%S")
strftime(dt) ==
    Let(CivilFromDays(dt.secs \div 86400), LAMBDA c :
    Let(dt.secs % 86400, LAMBDA sod :
        Pad(c.Y, 4) \o Pad(c.m, 2) \o Pad(c.d, 2)
        \o Pad(sod \div 3600, 2) \o Pad((sod % 3600) \div 60, 2) \o Pad(sod % 60, 2)))

(***************************************************************************)
(* datetime.strptime: the format is turned into a regular expression, one  *)
(* alternation per directive, matched at the start of the string with      *)
(* leftmost-alternative priority: of the ways to pick one alternative per  *)
(* directive so that the whole expression matches, the regex engine finds  *)
(* the first in lexicographic order.  Text left over after the match, or   *)
(* a field combination that is no date, is a ValueError.                   *)
(***************************************************************************)
Directives == {"%Y", "%m", "%d", "%H", "%M", "%S", "%f"}

\* the alternatives of a directive in priority order: w digits, value lo..hi
Alternatives(tok) ==
    CASE tok = "%Y" -> << [w |-> 4, lo |-> 0, hi |-> 9999] >>
      [] tok = "%m" -> << [w |-> 2, lo |-> 10, hi |-> 12], [w |-> 2, lo |-> 1, hi |-> 9],
                          [w |-> 1, lo |-> 1, hi |-> 9] >>
      [] tok = "%d" -> << [w |-> 2, lo |-> 30, hi |-> 31], [w |-> 2, lo |-> 10, hi |-> 29],
                          [w |-> 2, lo |-> 1, hi |-> 9], [w |-> 1, lo |-> 1, hi |-> 9] >>
      [] tok = "%H" -> << [w |-> 2, lo |-> 20, hi |-> 23], [w |-> 2, lo |-> 0, hi |-> 19],
                          [w |-> 1, lo |-> 0, hi |-> 9] >>
      [] tok = "%M" -> << [w |-> 2, lo |-> 0, hi |-> 59], [w |-> 1, lo |-> 0, hi |-> 9] >>
      [] tok = "%S" -> << [w |-> 2, lo |-> 60, hi |-> 61], [w |-> 2, lo |-> 0, hi |-> 59],
                          [w |-> 1, lo |-> 0, hi |-> 9] >>
      [] tok = "%f" -> << [w |-> 6, lo |-> 0, hi |-> 999999], [w |-> 5, lo |-> 0, hi |-> 99999],
                          [w |-> 4, lo |-> 0, hi |-> 9999], [w |-> 3, lo |-> 0, hi |-> 999],
                          [w |-> 2, lo |-> 0, hi |-> 99], [w |-> 1, lo |-> 0, hi |-> 9] >>

Pow10(n) == CASE n = 0 -> 1 [] n = 1 -> 10 [] n = 2 -> 100 [] n = 3 -> 1000
              [] n = 4 -> 10000 [] n = 5 -> 100000 [] n = 6 -> 1000000

FieldDefaults == [t \in Directives |-> IF t = "%Y" THEN 1900
                                       ELSE IF t \in {"%m", "%d"} THEN 1 ELSE 0]

\* a format holds each directive at most once: seven slots, in format order
DirSlots == 1..Cardinality(Directives)
Sum7(q) == q[1] + q[2] + q[3] + q[4] + q[5] + q[6] + q[7]

\* pos[j]: where the j-th directive stands in fmt (0: there is none);
\* rank[i]: how many directives stand before fmt[i] (i = Len(fmt) + 1: in all)
FormatShape(fmt) ==
    Let({ i \in 1..Len(fmt) : fmt[i] \in Directives }, LAMBDA D :
        [pos  |-> [j \in DirSlots |->
                     IF j <= Cardinality(D)
                     THEN CHOOSE i \in D : Cardinality({ h \in D : h < i }) = j - 1
                     ELSE 0],
         rank |-> [i \in 1..(Len(fmt) + 1) |-> Cardinality({ h \in D : h < i })]])

\* the ways to pick one alternative for every directive of the format
Candidates(fmt, shape) ==
    LET n(j) == IF shape.pos[j] = 0 THEN 1 ELSE Len(Alternatives(fmt[shape.pos[j]]))
    IN { <<k1, k2, k3, k4, k5, k6, k7>> :
           k1 \in 1..n(1), k2 \in 1..n(2), k3 \in 1..n(3), k4 \in 1..n(4),
           k5 \in 1..n(5), k6 \in 1..n(6), k7 \in 1..n(7) }

\* start[i]: where in the string fmt[i] is matched when the alternatives c are
\* picked; start[Len(fmt) + 1]: where the match ends
Starts(fmt, shape, c) ==
    Let([j \in DirSlots |-> IF shape.pos[j] = 0 THEN 0
                            ELSE Alternatives(fmt[shape.pos[j]])[c[j]].w - 1], LAMBDA extra :
    Let([r \in 0..Cardinality(Directives) |->
           Sum7([j \in DirSlots |-> IF j <= r THEN extra[j] ELSE 0])], LAMBDA pre :
        [i \in 1..(Len(fmt) + 1) |->
           i + pre[shape.rank[i]]]))

\* the regular expression matches a prefix of s with the alternatives c
re_match(fmt, s, shape, c) ==
    \E start \in { Starts(fmt, shape, c) } :
      \A i \in 1..Len(fmt) :
        IF fmt[i] \in Directives
        THEN \E a \in { Alternatives(fmt[i])[c[shape.rank[i] + 1]] } :
               /\ AllDigits(s, start[i], a.w)
               /\ NumTo(s, start[i], start[i] + a.w - 1) \in a.lo..a.hi
        ELSE start[i] <= Len(s) /\ s[start[i]] = fmt[i]

\* c comes before d in the priority order of the alternatives
Before(c, d) == \E j \in DirSlots : c[j] < d[j] /\ \A h \in 1..(j - 1) : c[h] = d[h]

\* the fields a match reads from the string
Fields(fmt, s, shape, c) ==
    Let(Starts(fmt, shape, c), LAMBDA start :
        [t \in Directives |->
           IF \E i \in 1..Len(fmt) : fmt[i] = t
           THEN Let(CHOOSE i \in 1..Len(fmt) : fmt[i] = t, LAMBDA i :
                Let(Alternatives(t)[c[shape.rank[i] + 1]], LAMBDA a :
                    NumTo(s, start[i], start[i] + a.w - 1)
                    * (IF t = "%f" THEN Pow10(6 - a.w) ELSE 1)))
           ELSE FieldDefaults[t]])

\* the outcome of a parse: a datetime, or ValueError
ValueError == [ok |-> FALSE, secs |-> 0, us |-> 0]

strptime(s, fmt) ==
    Let(<<s, FormatShape(fmt)>>, LAMBDA p :
    Let({ c \in Candidates(fmt, p[2]) : re_match(fmt, p[1], p[2], c) }, LAMBDA matches :
        IF matches = {} THEN ValueError
        ELSE Let(CHOOSE c \in matches : \A d \in matches \ {c} : Before(c, d), LAMBDA c :
             IF Starts(fmt, p[2], c)[Len(fmt) + 1] # Len(p[1]) + 1 THEN ValueError
             ELSE Let(Fields(fmt, p[1], p[2], c), LAMBDA v :
                  IF v["%Y"] < 1 \/ v["%S"] > 59 \/ v["%d"] > DaysInMonth(v["%Y"], v["%m"])
                  THEN ValueError
                  ELSE [ok |-> TRUE] @@ datetime(v["%Y"], v["%m"], v["%d"],
                                                 v["%H"], v["%M"], v["%S"], v["%f"])))))

(***************************************************************************)
(* Texts the environment can hand to a run.                                *)
(***************************************************************************)
WEB1 == <<"w","e","b","1">>
MYVM == <<"m","y","-","v","m",".","2">>
InstanceNames == {WEB1, MYVM}

TARGZ == <<".","t","a","r",".","g","z">>

\* YYYYMMDDHHMMSS and YYYY-MM-DDTHH:MM:SS of a civil time
Stamp(Y, m, d, H, M, S) ==
    Pad(Y, 4) \o Pad(m, 2) \o Pad(d, 2) \o Pad(H, 2) \o Pad(M, 2) \o Pad(S, 2)
Iso(Y, m, d, H, M, S) ==
    Pad(Y, 4) \o <<"-">> \o Pad(m, 2) \o <<"-">> \o Pad(d, 2) \o <<"T">>
    \o Pad(H, 2) \o <<":">> \o Pad(M, 2) \o <<":">> \o Pad(S, 2)

\* the wall clock (local time) at which a run starts: 2024-03-01 00:00:00
StartClock == datetime(2024, 3, 1, 0, 0, 0, 0).secs
\* local time minus UTC, in seconds: the host runs five hours behind UTC
UTC_OFFSET == 0 - 5 * 3600
\* seconds an export command can take
Durations == {0, 1}

\* exit of an external command: success, non-zero exit status, or the
\* binary could not be executed
RCs == {"ok", "fail", "noexec"}

(***************************************************************************)
(* run_command: the exception a command's exit raises in the caller, and   *)
(* what is logged.                                                         *)
(***************************************************************************)
Cmd(op, vm, arg, stateful, rc) ==
    [op |-> op, vm |-> vm, arg |-> arg, stateful |-> stateful, rc |-> rc]
Log(level, msg, arg) == [level |-> level, msg |-> msg, arg |-> arg]

run_command(rc) ==
    IF rc = "ok" THEN [exc |-> "none", log |-> <<>>]
    ELSE IF rc = "fail"
    THEN [exc |-> "RuntimeError", log |-> <<Log("error", "Error during command", <<>>)>>]
    ELSE [exc |-> "FileNotFoundError", log |-> <<>>]

(***************************************************************************)
(* check_backup_dir                                                        *)
(***************************************************************************)
\* a check_backup_dir that swallows the makedirs error
check_backup_dir_silent(isdir, makedirs_ok) ==
    [exc |-> "none", created |-> ~isdir /\ makedirs_ok]

check_backup_dir(isdir, makedirs_ok) ==
    IF ~isdir
    THEN IF makedirs_ok THEN [exc |-> "none", created |-> TRUE]
         ELSE [exc |-> "RuntimeError", created |-> FALSE]
    ELSE [exc |-> "none", created |-> FALSE]

(***************************************************************************)
(* get_vm_names: the 'incus list' table is a sequence of lines.            *)
(***************************************************************************)
Border == <<"+","-","-","+","-","-","+">>
Header == <<"|"," ","N","A","M","E"," ","|"," ","S","T","A","T","E"," ","|">>
Row(name) == <<"|"," ">> \o name \o <<" ","|"," ","R","U","N"," ","|">>
\* second line of a multi-line table cell: the NAME column is blank
ContinuationRow == <<"|"," "," "," ","|"," ","e","t","h","0"," ","|">>
RowCatalogue == {Row(WEB1), Row(MYVM), ContinuationRow}

RECURSIVE WithBorders(_)
WithBorders(rows) == IF Len(rows) = 0 THEN <<>>
                     ELSE <<rows[1], Border>> \o WithBorders(Tail(rows))
Table(rows) == <<Border, Header, Border>> \o WithBorders(rows)
Tables == { Table(rows) : rows \in UNION { [1..n -> RowCatalogue] : n \in 0..MaxRows } }

\* the name a table line contributes, <<>> if none
line_name(line) ==
    IF startswith(line, <<"|">>)
    THEN Let(split(strip(line), "|"), LAMBDA raw :
         Let([k \in 1..Len(raw) |-> strip(raw[k])], LAMBDA parts :
             IF Len(parts) > 1 /\ parts[2] # <<"N","A","M","E">> /\ parts[2] # <<>>
             THEN parts[2] ELSE <<>>))
    ELSE <<>>

get_vm_names(rc, stdout) ==
    LET r == run_command(rc) IN
    IF r.exc = "RuntimeError"
    THEN [exc |-> "none", vm_names |-> {},
          log |-> r.log \o <<Log("error", "Error running 'incus list'", <<>>)>>]
    ELSE IF r.exc # "none"
    THEN [exc |-> r.exc, vm_names |-> {}, log |-> r.log]
    ELSE [exc |-> "none",
          vm_names |-> { line_name(stdout[k]) : k \in 1..Len(stdout) } \ {<<>>},
          log |-> <<>>]

\* a list that keeps a repeated row: one name comes twice
Orders_repeating(S) == [1..(Cardinality(S) + 1) -> S]

\* list(vm_names): the orders in which a set can be iterated
Orders(S) == { q \in [1..Cardinality(S) -> S] : \A a, b \in DOMAIN q : a # b => q[a] # q[b] }

(***************************************************************************)
(* parse_iso_datetime                                                      *)
(***************************************************************************)
ISO_FMT == <<"%Y", "-", "%m", "-", "%d", "T", "%H", ":", "%M", ":", "%S", "Z">>
ISO_FRAC_FMT == <<"%Y", "-", "%m", "-", "%d", "T", "%H", ":", "%M", ":", "%S", ".", "%f", "Z">>

parse_iso_datetime(datetime_str) ==
    IF contains(datetime_str, ".") /\ endswith(datetime_str, <<"Z">>)
    THEN Let(split1(datetime_str, "."), LAMBDA parts :
         Let(rstrip(parts[2], "Z"), LAMBDA frac_part :
             LET date_part     == parts[1]
                 frac_adjusted == ljust(SubSeq(frac_part, 1, IF Len(frac_part) < 6
                                                             THEN Len(frac_part) ELSE 6), 6, "0")
                 adjusted_str  == date_part \o <<".">> \o frac_adjusted \o <<"Z">>
             IN strptime(adjusted_str, ISO_FRAC_FMT)))
    ELSE strptime(datetime_str, ISO_FMT)

(***************************************************************************)
(* Answers of 'incus snapshot list <vm> --format json'.  A snapshot is a   *)
(* JSON object; a key it lacks is absent from the record's domain.         *)
(***************************************************************************)
SnapCatalogue ==
    { [name |-> <<"s","1">>, created_at |-> Iso(2024, 2, 20, 0, 0, 0) \o <<"Z">>],
      [name |-> <<"s","2">>, created_at |-> Iso(2024, 2, 27, 0, 0, 0) \o <<"Z">>],
      [name |-> <<"s","3">>, created_at |-> Iso(2024, 2, 23, 5, 0, 0) \o <<"Z">>],
      [name |-> <<"s","4">>, created_at |-> Iso(2024, 2, 23, 4, 59, 59) \o <<".","5","Z">>],
      [name |-> <<"s","5">>, created_at |-> <<"2","0","2","4","-","0","2","-","2","0"," ","0","0",":","0","0">>],
      [name |-> <<"s","6">>] }

\* the lists json.loads can return: no two entries are the same snapshot
SnapLists == UNION { { q \in [1..n -> SnapCatalogue] :
                         \A a, b \in 1..n : a # b => q[a] # q[b] } : n \in 0..MaxSnaps }

\* stdout of the listing: a JSON array, text that is no JSON, or JSON null
SnapStdouts == { [kind |-> "list", snaps |-> q] : q \in SnapLists }
               \cup { [kind |-> "invalid", snaps |-> <<>>], [kind |-> "null", snaps |-> <<>>] }

\* parse_iso_datetime on the catalogue's strings, computed once
memo_parse_iso_datetime ==
    [str \in { snap.created_at : snap \in { c \in SnapCatalogue : "created_at" \in DOMAIN c } }
        |-> parse_iso_datetime(str)]

(***************************************************************************)
(* prune_old_snapshots of incus-backup.py                                  *)
(***************************************************************************)
\* parse_iso_datetime(created_str)
created_at_of(created_str) ==
    IF created_str \in DOMAIN memo_parse_iso_datetime
    THEN memo_parse_iso_datetime[created_str]
    ELSE parse_iso_datetime(created_str)

\* a loop body that compares with 'created_at <= cutoff'
prune_snapshot_le(vm_name, snap, cutoff, rc) ==
    IF "name" \notin DOMAIN snap \/ "created_at" \notin DOMAIN snap
    THEN [cmds |-> <<>>, log |-> <<Log("error", "Missing field in snapshot data", <<>>)>>]
    ELSE Let(created_at_of(snap.created_at), LAMBDA created_at :
         IF ~created_at.ok
         THEN [cmds |-> <<>>,
               log |-> <<Log("error", "Failed to parse timestamp", snap.created_at)>>]
         ELSE IF ~DtLess(cutoff, created_at)
         THEN [cmds |-> <<Cmd("snapshot delete", vm_name, snap.name, FALSE, rc)>>,
               log  |-> <<Log("info", "Deleting snapshot", snap.name)>> \o run_command(rc).log
                        \o (IF rc # "ok"
                            THEN <<Log("error", "Error processing snapshot", snap.name)>>
                            ELSE <<>>)]
         ELSE [cmds |-> <<>>, log |-> <<>>])

\* one iteration of 'for snap in snapshots': the commands issued and the log
prune_snapshot(vm_name, snap, cutoff, rc) ==
    IF "name" \notin DOMAIN snap \/ "created_at" \notin DOMAIN snap
    THEN [cmds |-> <<>>, log |-> <<Log("error", "Missing field in snapshot data", <<>>)>>]
    ELSE Let(created_at_of(snap.created_at), LAMBDA created_at :
         IF ~created_at.ok
         THEN [cmds |-> <<>>,
               log |-> <<Log("error", "Failed to parse timestamp", snap.created_at)>>]
         ELSE IF DtLess(created_at, cutoff)
         THEN LET r == run_command(rc) IN
              [cmds |-> <<Cmd("snapshot delete", vm_name, snap.name, FALSE, rc)>>,
               log  |-> <<Log("info", "Deleting snapshot", snap.name)>> \o r.log
                        \o (IF r.exc # "none"
                            THEN <<Log("error", "Error processing snapshot", snap.name)>>
                            ELSE <<>>)]
         ELSE [cmds |-> <<>>, log |-> <<>>])

RECURSIVE prune_loop(_, _, _, _, _)
prune_loop(vm_name, snapshots, cutoff, drc, k) ==
    IF k > Len(snapshots) THEN [cmds |-> <<>>, log |-> <<>>]
    ELSE Let(prune_snapshot(vm_name, snapshots[k], cutoff, drc[k]), LAMBDA one :
         Let(prune_loop(vm_name, snapshots, cutoff, drc, k + 1), LAMBDA rest :
             [cmds |-> one.cmds \o rest.cmds, log |-> one.log \o rest.log]))

NoCutoff == [secs |-> 0, us |-> 0]

prune_old_snapshots(vm_name, retention_days, rc, stdout, drc, utcnow) ==
    LET r      == run_command(rc)
        list   == Cmd("snapshot list", vm_name, <<>>, FALSE, rc)
        start  == <<Log("info", "Starting snapshot pruning", vm_name)>>
        cutoff == MinusDays(utcnow, retention_days)
    IN IF r.exc # "none" \/ stdout.kind = "invalid"
       THEN [exc |-> "none", cmds |-> <<list>>, listed |-> FALSE, snapshots |-> <<>>,
             cutoff |-> NoCutoff,
             log |-> start \o r.log \o <<Log("error", "Failed to get snapshots", vm_name)>>]
       ELSE IF stdout.kind = "null"
       THEN [exc |-> "TypeError", cmds |-> <<list>>, listed |-> FALSE, snapshots |-> <<>>,
             cutoff |-> cutoff, log |-> start]
       ELSE Let(prune_loop(vm_name, stdout.snaps, cutoff, drc, 1), LAMBDA loop :
            [exc |-> "none", cmds |-> <<list>> \o loop.cmds, listed |-> TRUE,
             snapshots |-> stdout.snaps, cutoff |-> cutoff, log |-> start \o loop.log])

(***************************************************************************)
(* prune_old_snapshots of incus-bckup.py: the name 'snapshots' is bound    *)
(* nowhere, so the first statement of the function raises NameError.       *)
(***************************************************************************)
prune_old_snapshots_bckup(vm_name, retention_days) ==
    [exc |-> "NameError", cmds |-> <<>>, listed |-> FALSE, snapshots |-> <<>>,
     cutoff |-> NoCutoff, log |-> <<>>]

(***************************************************************************)
(* snapshot_vm                                                             *)
(***************************************************************************)
\* a snapshot_vm that logs the failure and does not re-raise it
snapshot_vm_swallow(vm_name, snapshot_name, stateful, rc1, rc2) ==
    [exc |-> "none", cmds |-> <<Cmd("snapshot create", vm_name, snapshot_name, stateful, rc1)>>,
     log |-> <<Log("info", "Taking snapshot", vm_name)>> \o run_command(rc1).log
             \o (IF rc1 # "ok"
                 THEN <<Log("error", "Unexpected error during snapshot", vm_name)>> ELSE <<>>)]

snapshot_vm(vm_name, snapshot_name, stateful, rc1, rc2) ==
    LET first == Cmd("snapshot create", vm_name, snapshot_name, stateful, rc1)
        r1    == run_command(rc1)
        start == <<Log("info", "Taking snapshot", vm_name)>>
    IN IF r1.exc = "none"
       THEN [exc |-> "none", cmds |-> <<first>>, log |-> start]
       ELSE IF r1.exc = "CalledProcessError"
       THEN IF stateful
            THEN LET retry == Cmd("snapshot create", vm_name, snapshot_name, FALSE, rc2)
                     r2    == run_command(rc2)
                     warn  == <<Log("warning", "Stateful snapshot failed, attempting stateless", vm_name)>>
                 IN IF r2.exc = "none"
                    THEN [exc |-> "none", cmds |-> <<first, retry>>,
                          log |-> start \o r1.log \o warn]
                    ELSE [exc |-> r2.exc, cmds |-> <<first, retry>>,
                          log |-> start \o r1.log \o warn \o r2.log
                                  \o <<Log("error", "Failed both stateful and stateless snapshots", vm_name)>>]
            ELSE [exc |-> r1.exc, cmds |-> <<first>>,
                  log |-> start \o r1.log \o <<Log("error", "Snapshot creation failed", vm_name)>>]
       ELSE [exc |-> r1.exc, cmds |-> <<first>>,
             log |-> start \o r1.log \o <<Log("error", "Unexpected error during snapshot", vm_name)>>]

snapshot_vm_bckup(vm_name, snapshot_name, rc) ==
    LET first == Cmd("snapshot create", vm_name, snapshot_name, FALSE, rc)
        r     == run_command(rc)
        start == <<Log("info", "Taking snapshot", vm_name)>>
    IN IF r.exc = "none"
       THEN [exc |-> "none", cmds |-> <<first>>, log |-> start]
       ELSE [exc |-> r.exc, cmds |-> <<first>>,
             log |-> start \o r.log \o <<Log("error", "Error taking snapshot", vm_name)>>]

(***************************************************************************)
(* export_vm (the same text in both scripts)                               *)
(***************************************************************************)
export_vm(vm_name, backup_path, rc, file_exists, duration_sec) ==
    LET cmd   == Cmd("export", vm_name, backup_path, FALSE, rc)
        r     == run_command(rc)
        start == <<Log("info", "Exporting VM", vm_name)>>
    IN IF r.exc # "none"
       THEN [exc |-> r.exc, cmds |-> <<cmd>>,
             log |-> start \o r.log \o <<Log("error", "Error exporting VM", vm_name)>>]
       ELSE IF file_exists
       THEN [exc |-> "none", cmds |-> <<cmd>>,
             log |-> start \o <<Log("info", IF duration_sec > 0
                                              THEN "Backup completed, finite speed"
                                              ELSE "Backup completed, speed inf", vm_name)>>]
       ELSE [exc |-> "none", cmds |-> <<cmd>>,
             log |-> start \o <<Log("error", "Backup file not found after export", vm_name)>>]

(***************************************************************************)
(* prune_old_backups                                                       *)
(***************************************************************************)
STAMP_FMT == <<"%Y", "%m", "%d", "%H", "%M", "%S">>

\* a decoder that takes the piece after the first hyphen
timestamp_str_first(filename) ==
    Let(split(filename, "-"), LAMBDA parts :
        split(parts[IF Len(parts) > 1 THEN 2 ELSE 1], ".")[1])

\* filename.split("-")[-1].split(".")[0]
timestamp_str(filename) ==
    Let(split(filename, "-"), LAMBDA tail : split(tail[Len(tail)], ".")[1])

\* files another process or an earlier run left in the backup directory
FileCatalogue ==
    { WEB1 \o <<"-">> \o Stamp(2024, 1, 1, 0, 0, 0) \o TARGZ,
      WEB1 \o <<"-">> \o Stamp(2024, 2, 20, 0, 0, 0) \o TARGZ,
      WEB1 \o <<"-">> \o Stamp(2024, 2, 16, 0, 0, 0) \o TARGZ,
      MYVM \o <<"-">> \o Stamp(2024, 2, 15, 23, 59, 59) \o TARGZ,
      Stamp(2024, 1, 1, 0, 0, 0) \o TARGZ,
      WEB1 \o <<"-">> \o Stamp(2024, 1, 1, 0, 0, 0) \o <<".","p">> \o TARGZ,
      WEB1 \o <<"-">> \o SubSeq(Stamp(2024, 1, 1, 0, 0, 0), 1, 13) \o TARGZ,
      WEB1 \o <<"-">> \o Stamp(2024, 1, 1, 0, 0, 0) \o <<"0">> \o TARGZ,
      WEB1 \o <<"-">> \o Stamp(2024, 1, 1, 0, 0, 0) \o <<".","t","g","z">> }

OtherFiles == { F \in SUBSET FileCatalogue : Cardinality(F) <= MaxFiles }

\* the parse of the catalogue's file names, computed once
memo_file_date ==
    [f \in { g \in FileCatalogue
                    \cup { vm \o <<"-">> \o strftime([secs |-> StartClock, us |-> 0]) \o TARGZ :
                             vm \in InstanceNames } : endswith(g, TARGZ) }
        |-> strptime(timestamp_str(f), STAMP_FMT)]

\* datetime.strptime(timestamp_str, "%Y%m%d%H%M%S") of a file name
file_date_of(filename) ==
    IF filename \in DOMAIN memo_file_date THEN memo_file_date[filename]
    ELSE strptime(timestamp_str(filename), STAMP_FMT)

\* a loop body that compares with 'file_date <= cutoff'
prune_backup_le(filename, cutoff, remove_ok) ==
    IF ~endswith(filename, TARGZ) THEN "skipped"
    ELSE Let(file_date_of(filename), LAMBDA file_date :
         IF ~file_date.ok THEN "invalid timestamp"
         ELSE IF ~DtLess(cutoff, file_date)
         THEN (IF remove_ok THEN "removed" ELSE "error deleting")
         ELSE "kept")

\* what the loop body does with one directory entry
prune_backup(filename, cutoff, remove_ok) ==
    IF ~endswith(filename, TARGZ) THEN "skipped"
    ELSE Let(file_date_of(filename), LAMBDA file_date :
         IF ~file_date.ok THEN "invalid timestamp"
         ELSE IF DtLess(file_date, cutoff)
         THEN (IF remove_ok THEN "removed" ELSE "error deleting")
         ELSE "kept")

\* the entries the loop calls os.remove on
file_expired(filename, now_) ==
    prune_backup(filename, MinusDays(now_, BACKUP_RETENTION_DAYS), TRUE) = "removed"

\* a loop body that counts the deletion before it calls os.remove
count_backup_eager(verdict, acc) ==
    [deleted_count |-> acc.deleted_count
                       + (IF verdict \in {"removed", "error deleting"} THEN 1 ELSE 0),
     error_count   |-> acc.error_count
                       + (IF verdict \in {"invalid timestamp", "error deleting"} THEN 1 ELSE 0)]

\* the counters after one iteration: 'deleted_count += 1' once os.remove has
\* returned, 'error_count += 1' in either except clause
count_backup(verdict, acc) ==
    [deleted_count |-> acc.deleted_count + (IF verdict = "removed" THEN 1 ELSE 0),
     error_count   |-> acc.error_count
                       + (IF verdict \in {"invalid timestamp", "error deleting"} THEN 1 ELSE 0)]

RECURSIVE prune_backups_loop(_, _, _)
\* 'for filename in os.listdir(BACKUP_DIR)' over the entries still to come
prune_backups_loop(todo, verdict, acc) ==
    IF todo = {} THEN acc
    ELSE Let(CHOOSE f \in todo : TRUE, LAMBDA filename :
         Let(count_backup(verdict[filename], acc), LAMBDA counted :
             prune_backups_loop(todo \ {filename}, verdict, counted)))

\* listdir: the directory entries; unremovable: those os.remove would fail on.
\* The iterations are independent of one another, so the order in which
\* os.listdir yields the entries does not show in the result.
prune_old_backups(listdir, unremovable, now) ==
    Let(MinusDays(now, BACKUP_RETENTION_DAYS), LAMBDA cutoff :
    Let([f \in listdir |-> prune_backup(f, cutoff, f \notin unremovable)], LAMBDA verdict :
    Let(prune_backups_loop(listdir, verdict, [deleted_count |-> 0, error_count |-> 0]),
        LAMBDA counters :
       [exc |-> "none", verdict |-> verdict, cutoff |-> cutoff,
        file_date |-> [f \in listdir |-> IF endswith(f, TARGZ) THEN file_date_of(f)
                                         ELSE ValueError],
        deleted_count |-> counters.deleted_count, error_count |-> counters.error_count,
        log |-> <<Log("info", "Pruning backups", <<>>),
                  [level |-> "info", msg |-> "Backup pruning complete", arg |-> <<>>,
                   deleted |-> counters.deleted_count, errors |-> counters.error_count]>>])))

(***************************************************************************)
(* main: the run as a state machine                                        *)
(***************************************************************************)
VARIABLES
    script,               \* which of the two scripts runs
    STATEFUL_SNAPSHOTS,   \* configuration variable of incus-backup.py
    clock,                \* the wall clock, local time
    dir_ready,            \* the backup directory exists
    pc,                   \* the call main makes next, or how the run ended
    vm_names,             \* main's vm_names
    idx,                  \* position of the 'for vm in vm_names' loop
    timestamp,            \* main's timestamp
    call,                 \* the last call main made: commands, log, exception
    issued,               \* kinds of commands issued so far, per instance
    outcome,              \* per instance: how snapshot creation and export went
    main_log,             \* what main itself has logged
    written,              \* archive files this run's exports left in the directory
    prune_runs            \* number of calls of prune_old_backups

vars == <<script, STATEFUL_SNAPSHOTS, clock, dir_ready, pc, vm_names, idx,
          timestamp, call, issued, outcome, main_log, written, prune_runs>>

BACKUP == "incus-backup.py"
BCKUP  == "incus-bckup.py"

NoData == [none |-> TRUE]
Call(fn, vm, r, data) ==
    [fn |-> fn, vm |-> vm, exc |-> r.exc, cmds |-> r.cmds, log |-> r.log, data |-> data]

now    == [secs |-> clock, us |-> 0]
utcnow == [secs |-> clock - UTC_OFFSET, us |-> 0]

Range(q) == { q[k] : k \in DOMAIN q }
Issue(cmds) == issued \cup { c.op : c \in Range(cmds) }

snapshot_name(ts) == <<"s","n","a","p","s","h","o","t","-">> \o ts
backup_file(vm, ts) == rstrip(BACKUP_DIR, "/") \o <<"/">> \o vm \o <<"-">> \o ts \o TARGZ
basename(path) == Let(split(path, "/"), LAMBDA parts : parts[Len(parts)])

\* a handler that catches the parse errors only
caught_narrow(exc) == exc \in {"ValueError", "KeyError"}

\* 'except Exception' of main's try blocks
caught(exc) == exc \in {"RuntimeError", "FileNotFoundError", "CalledProcessError",
                        "TypeError", "NameError", "ValueError", "KeyError"}

\* where main goes when the loop body for vm_names[i] is over
after_vm(scr, i, n) ==
    IF i < n THEN "prune_old_snapshots"
    ELSE IF scr = BACKUP THEN "prune_old_backups" ELSE "done"

Init ==
    /\ script \in {BACKUP, BCKUP}
    /\ STATEFUL_SNAPSHOTS \in BOOLEAN
    /\ script = BCKUP => STATEFUL_SNAPSHOTS = FALSE
    /\ clock = StartClock
    /\ dir_ready = FALSE
    /\ pc = "check_backup_dir"
    /\ vm_names = <<>>
    /\ idx = 0
    /\ timestamp = <<>>
    /\ call = [fn |-> "none", vm |-> <<>>, exc |-> "none", cmds |-> <<>>, log |-> <<>>,
               data |-> NoData]
    /\ issued = {}
    /\ outcome = [vm \in InstanceNames |-> [snapshot |-> "none", export |-> "none"]]
    /\ main_log = {}
    /\ written = {}
    /\ prune_runs = 0

\* main, lines 245-249
CheckBackupDir ==
    /\ pc = "check_backup_dir"
    /\ \E isdir \in BOOLEAN, makedirs_ok \in BOOLEAN :
         \E r \in { check_backup_dir(isdir, makedirs_ok) } :
         /\ call' = Call("check_backup_dir", <<>>, r @@ [cmds |-> <<>>, log |-> <<>>], NoData)
         /\ dir_ready' = (isdir \/ r.created)
         /\ IF r.exc = "RuntimeError"
            THEN /\ pc' = "aborted"
                 /\ main_log' = main_log \cup {Log("error", "Failed to create backup directory", <<>>)}
            ELSE /\ pc' = "get_vm_names"
                 /\ main_log' = main_log
    /\ UNCHANGED <<script, STATEFUL_SNAPSHOTS, clock, vm_names, idx, timestamp,
                   issued, outcome, written, prune_runs>>

\* main, lines 251-257
GetVmNames ==
    /\ pc = "get_vm_names"
    /\ \E rc \in RCs, stdout \in Tables :
         \E r \in { get_vm_names(rc, stdout) } :
         LET c == <<Cmd("list", <<>>, <<>>, FALSE, rc)>> IN
         /\ call' = Call("get_vm_names", <<>>, r @@ [cmds |-> c], [vm_names |-> r.vm_names])
         /\ issued' = Issue(c)
         /\ IF r.exc # "none"
            THEN /\ pc' = "crashed"
                 /\ UNCHANGED <<vm_names, idx, timestamp, main_log>>
            ELSE \E vm_list \in Orders(r.vm_names) :
                   /\ vm_names' = vm_list
                   /\ IF vm_list = <<>>
                      THEN /\ pc' = "aborted"
                           /\ main_log' = main_log \cup {Log("error", "No VMs found or error retrieving instance list", <<>>)}
                           /\ UNCHANGED <<idx, timestamp>>
                      ELSE /\ pc' = "prune_old_snapshots"
                           /\ idx' = 1
                           /\ timestamp' = strftime(now)
                           /\ main_log' = main_log
    /\ UNCHANGED <<script, STATEFUL_SNAPSHOTS, clock, dir_ready, outcome, written,
                   prune_runs>>

\* main, lines 260-265
PruneOldSnapshots ==
    /\ pc = "prune_old_snapshots"
    /\ LET vm == vm_names[idx] IN
       \E r \in IF script = BACKUP
                THEN { prune_old_snapshots(vm, RETENTION_DAYS, rc, [kind |-> "invalid", snaps |-> <<>>],
                                           <<>>, utcnow) : rc \in RCs }
                     \cup UNION { { prune_old_snapshots(vm, RETENTION_DAYS, "ok", stdout, drc, utcnow) :
                                      drc \in [1..Len(stdout.snaps) -> RCs] } : stdout \in SnapStdouts }
                ELSE { prune_old_snapshots_bckup(vm, RETENTION_DAYS) } :
         /\ call' = Call("prune_old_snapshots", vm, r,
                         [listed |-> r.listed, snapshots |-> r.snapshots, cutoff |-> r.cutoff])
         /\ issued' = Issue(r.cmds)
         /\ main_log' = main_log \cup {Log("info", "Processing VM", vm)}
                        \cup (IF r.exc # "none" /\ caught(r.exc)
                              THEN {Log("error", "Error during snapshot pruning", vm)} ELSE {})
         /\ pc' = IF r.exc # "none" /\ ~caught(r.exc) THEN "crashed" ELSE "snapshot_vm"
    /\ UNCHANGED <<script, STATEFUL_SNAPSHOTS, clock, dir_ready, vm_names, idx,
                   timestamp, outcome, written, prune_runs>>

\* main, lines 267-270 and 272-273
SnapshotVm ==
    /\ pc = "snapshot_vm"
    /\ LET vm == vm_names[idx] IN
       \E rc1 \in RCs, rc2 \in RCs :
         \E r \in { IF script = BACKUP
                    THEN snapshot_vm(vm, snapshot_name(timestamp), STATEFUL_SNAPSHOTS, rc1, rc2)
                    ELSE snapshot_vm_bckup(vm, snapshot_name(timestamp), rc1) } :
         LET created == r.cmds[Len(r.cmds)].rc = "ok" IN
         /\ call' = Call("snapshot_vm", vm, r, NoData)
         /\ issued' = Issue(r.cmds)
         /\ outcome' = [outcome EXCEPT ![vm].snapshot = IF created THEN "ok" ELSE "failed"]
         /\ IF r.exc = "none"
            THEN /\ pc' = "export_vm"
                 /\ UNCHANGED <<idx, main_log>>
            ELSE IF caught(r.exc)
            THEN /\ main_log' = main_log \cup {Log("error", "Skipping export", vm)}
                 /\ pc' = after_vm(script, idx, Len(vm_names))
                 /\ idx' = IF idx < Len(vm_names) THEN idx + 1 ELSE idx
            ELSE /\ pc' = "crashed"
                 /\ UNCHANGED <<idx, main_log>>
    /\ UNCHANGED <<script, STATEFUL_SNAPSHOTS, clock, dir_ready, vm_names,
                   timestamp, written, prune_runs>>

\* main, lines 268 and 271-273
ExportVm ==
    /\ pc = "export_vm"
    /\ \E vm \in {vm_names[idx]} :
       \E path \in {backup_file(vm, timestamp)} :
       \E rc \in RCs, file_exists \in BOOLEAN, duration_sec \in Durations :
         \E r \in { export_vm(vm, path, rc, file_exists, duration_sec) } :
         /\ rc # "ok" => ~file_exists
         /\ ~file_exists => duration_sec = 0
         /\ call' = Call("export_vm", vm, r, [file_exists |-> file_exists])
         /\ clock' = clock + duration_sec
         /\ issued' = Issue(r.cmds)
         /\ written' = IF file_exists THEN written \cup {basename(path)} ELSE written
         /\ outcome' = [outcome EXCEPT ![vm].export =
                           IF rc # "ok" THEN "failed"
                           ELSE IF file_exists THEN "ok" ELSE "no file"]
         /\ IF r.exc = "none" \/ caught(r.exc)
            THEN /\ main_log' = IF r.exc = "none" THEN main_log
                                ELSE main_log \cup {Log("error", "Skipping export", vm)}
                 /\ pc' = after_vm(script, idx, Len(vm_names))
                 /\ idx' = IF idx < Len(vm_names) THEN idx + 1 ELSE idx
            ELSE /\ pc' = "crashed"
                 /\ UNCHANGED <<idx, main_log>>
    /\ UNCHANGED <<script, STATEFUL_SNAPSHOTS, dir_ready, vm_names, timestamp,
                   prune_runs>>

\* main, line 275, with the backup directory holding this run's archives and
\* one of the sets of files in Others
PruneOldBackupsAmong(Others) ==
    /\ pc = "prune_old_backups"
    /\ \E others \in Others :
         LET listdir == written \cup others IN
         \E unremovable \in SUBSET { f \in others : file_expired(f, now) } :
         \E r \in { prune_old_backups(listdir, unremovable, now) } :
           /\ call' = Call("prune_old_backups", <<>>, r @@ [cmds |-> <<>>],
                           [listdir |-> listdir, unremovable |-> unremovable,
                            verdict |-> r.verdict, file_date |-> r.file_date,
                            cutoff |-> r.cutoff, deleted_count |-> r.deleted_count,
                            error_count |-> r.error_count])
           /\ issued' = IF \E f \in listdir : r.verdict[f] \in {"removed", "error deleting"}
                        THEN issued \cup {"os.remove"} ELSE issued
           /\ written' = { f \in written : r.verdict[f] # "removed" }
    /\ prune_runs' = prune_runs + 1
    /\ pc' = "done"
    /\ UNCHANGED <<script, STATEFUL_SNAPSHOTS, clock, dir_ready, vm_names, idx,
                   timestamp, outcome, main_log>>

PruneOldBackups == PruneOldBackupsAmong(OtherFiles)

Next == \/ CheckBackupDir
        \/ GetVmNames
        \/ PruneOldSnapshots
        \/ SnapshotVm
        \/ ExportVm
        \/ PruneOldBackups

Spec == Init /\ [][Next]_vars

(***************************************************************************)
(* The archive name from main to prune_old_backups: a run of               *)
(* incus-backup.py with one instance, started at any of a range of wall    *)
(* clock times, in which snapshot and export succeed and the backup        *)
(* directory holds nothing but the run's archive.                          *)
(***************************************************************************)
RoundTripNames == { WEB1, MYVM, <<"d","b","-","2","0","2","4">> }

RoundTripClocks ==
    { datetime(date[1], date[2], date[3], time[1], time[2], time[3], 0).secs :
        date \in { ymd \in {2000, 2023, 2024, 2038} \X {1, 2, 3, 9, 12} \X {1, 9, 28, 29, 31} :
                     ymd[3] <= DaysInMonth(ymd[1], ymd[2]) },
        time \in { <<0, 0, 0>>, <<9, 5, 3>>, <<23, 59, 59>> } }

RoundTripInit ==
    /\ script = BACKUP
    /\ STATEFUL_SNAPSHOTS = FALSE
    /\ clock \in RoundTripClocks
    /\ dir_ready = TRUE
    /\ pc = "export_vm"
    /\ vm_names \in { <<vm>> : vm \in RoundTripNames }
    /\ idx = 1
    /\ timestamp = <<>>
    /\ call = [fn |-> "none", vm |-> <<>>, exc |-> "none", cmds |-> <<>>, log |-> <<>>,
               data |-> NoData]
    /\ issued = {}
    /\ outcome = [vm \in InstanceNames |-> [snapshot |-> "none", export |-> "none"]]
    /\ main_log = {}
    /\ written = {}
    /\ prune_runs = 0

\* main, lines 256, 268 and 271: the export leaves its file
RoundTripExport ==
    /\ pc = "export_vm"
    /\ \E ts \in { strftime(now) } :
       \E path \in { backup_file(vm_names[idx], ts) } :
       \E r \in { export_vm(vm_names[idx], path, "ok", TRUE, 0) } :
         /\ timestamp' = ts
         /\ call' = Call("export_vm", vm_names[idx], r, [file_exists |-> TRUE])
         /\ issued' = Issue(r.cmds)
         /\ written' = {basename(path)}
    /\ pc' = after_vm(script, idx, Len(vm_names))
    /\ UNCHANGED <<script, STATEFUL_SNAPSHOTS, clock, dir_ready, vm_names, idx,
                   outcome, main_log, prune_runs>>

\* main, line 275
RoundTripPrune == PruneOldBackupsAmong({{}})

RoundTripNext == RoundTripExport \/ RoundTripPrune

SpecRoundTrip == RoundTripInit /\ [][RoundTripNext]_vars

(***************************************************************************)
(* The created_at string of a snapshot through the pruning step of main:   *)
(* the listing of the instance holds one snapshot whose created_at is a    *)
(* whole second followed by no fraction or by a fraction of up to          *)
(* MaxFracLen digits.                                                      *)
(***************************************************************************)
MaxFracLen == 10

FracPatterns == { <<"5","0","0","0","0","0","0","0","1","9","9","9">>,
                  <<"1","2","3","4","5","6","7","8","9","0","1","2">>,
                  <<"0","0","0","0","0","0","1","9","9","9","9","9">>,
                  <<"9","9","9","9","9","9","9","9","9","9","9","9">> }
Fractions == { SubSeq(p, 1, n) : p \in FracPatterns, n \in 0..MaxFracLen }

\* whole seconds, UTC: one second before the cutoff of a run started at
\* StartClock, the cutoff itself, and two others
ParseSeconds == { <<2024, 2, 23, 4, 59, 59>>, <<2024, 2, 23, 5, 0, 0>>,
                  <<2024, 2, 29, 23, 59, 59>>, <<2000, 1, 1, 0, 0, 0>> }

CreatedAts == { [at |-> at, dotted |-> TRUE, frac |-> F] : at \in ParseSeconds, F \in Fractions }
              \cup { [at |-> at, dotted |-> FALSE, frac |-> <<>>] : at \in ParseSeconds }

created_str_of(c) ==
    Iso(c.at[1], c.at[2], c.at[3], c.at[4], c.at[5], c.at[6])
    \o (IF c.dotted THEN <<".">> \o c.frac ELSE <<>>) \o <<"Z">>

\* the value of created_at no statement has assigned
Unassigned == [ok |-> FALSE, secs |-> 0, us |-> 0]

\* created_at of the loop body of prune_old_snapshots, for a snapshot that
\* has both keys: incus-backup.py assigns it at line 126; in incus-bckup.py
\* the function has raised NameError before any assignment
created_at_in_prune(scr, snap) ==
    IF scr = BACKUP THEN created_at_of(snap.created_at) ELSE Unassigned

ParseInit ==
    /\ script \in {BACKUP, BCKUP}
    /\ STATEFUL_SNAPSHOTS = FALSE
    /\ clock = StartClock
    /\ dir_ready = TRUE
    /\ pc = "prune_old_snapshots"
    /\ vm_names = <<WEB1>>
    /\ idx = 1
    /\ timestamp = Stamp(2024, 3, 1, 0, 0, 0)
    /\ \E c \in CreatedAts :
         call = [fn |-> "none", vm |-> <<>>, exc |-> "none", cmds |-> <<>>, log |-> <<>>,
                 data |-> [input |-> c,
                           snap  |-> [name |-> <<"s","0">>, created_at |-> created_str_of(c)]]]
    /\ issued = {"list"}
    /\ outcome = [vm \in InstanceNames |-> [snapshot |-> "none", export |-> "none"]]
    /\ main_log = {}
    /\ written = {}
    /\ prune_runs = 0

\* main, lines 260-265, where 'incus snapshot list' answers with the one
\* snapshot and 'incus snapshot delete' succeeds
ParsePruneOldSnapshots ==
    /\ pc = "prune_old_snapshots"
    /\ call.fn = "none"
    /\ \E vm \in { vm_names[idx] }, snap \in { call.data.snap } :
       \E r \in { IF script = BACKUP
                  THEN prune_old_snapshots(vm, RETENTION_DAYS, "ok",
                                           [kind |-> "list", snaps |-> <<snap>>],
                                           <<"ok">>, utcnow)
                  ELSE prune_old_snapshots_bckup(vm, RETENTION_DAYS) } :
         /\ call' = Call("prune_old_snapshots", vm, r,
                         [input |-> call.data.input, snap |-> snap, listed |-> r.listed,
                          snapshots |-> r.snapshots, cutoff |-> r.cutoff,
                          created_at |-> created_at_in_prune(script, snap)])
         /\ issued' = Issue(r.cmds)
         /\ main_log' = main_log \cup {Log("info", "Processing VM", vm)}
                        \cup (IF r.exc # "none" /\ caught(r.exc)
                              THEN {Log("error", "Error during snapshot pruning", vm)} ELSE {})
         /\ pc' = IF r.exc # "none" /\ ~caught(r.exc) THEN "crashed" ELSE "snapshot_vm"
    /\ UNCHANGED <<script, STATEFUL_SNAPSHOTS, clock, dir_ready, vm_names, idx,
                   timestamp, outcome, written, prune_runs>>

ParseNext == ParsePruneOldSnapshots

SpecParse == ParseInit /\ [][ParseNext]_vars

(***************************************************************************)
(* get_vm_names on the tables 'incus list' prints: a border, the header    *)
(* row, a border, and then every row followed by a border.  The NAME       *)
(* column is as wide as its widest cell, the header is centred in it and   *)
(* the names are left-aligned; a row that continues a multi-line cell has  *)
(* a blank NAME cell.                                                      *)
(***************************************************************************)
NAME == <<"N","A","M","E">>

\* the NAME cells of the rows: names of instances (letters, digits and
\* dashes from the ASCII table), and <<>> for the blank cell
ListedNames == { WEB1, MYVM, NAME, <<"n","a","m","e">>, <<"d","b","-","2","0","2","4">>, <<>> }
ListedRows == UNION { [1..n -> ListedNames] : n \in 0..MaxRows }

Spaces(n) == [k \in 1..n |-> " "]
Dashes(n) == [k \in 1..n |-> "-"]

RECURSIVE ColumnWidth(_, _)
ColumnWidth(rows, k) ==
    IF k > Len(rows) THEN Len(NAME)
    ELSE Let(ColumnWidth(rows, k + 1), LAMBDA w : IF Len(rows[k]) > w THEN Len(rows[k]) ELSE w)

BorderLine(w) == <<"+">> \o Dashes(w + 2) \o <<"+","-","-","-","-","-","-","-","+">>
HeaderLine(w) ==
    <<"|"," ">> \o Spaces((w - Len(NAME)) \div 2) \o NAME
    \o Spaces(w - Len(NAME) - (w - Len(NAME)) \div 2) \o <<" ","|"," ","S","T","A","T","E"," ","|">>
RowLine(name, w) ==
    <<"|"," ">> \o name \o Spaces(w - Len(name))
    \o (IF name = <<>> THEN <<" ","|"," "," "," "," "," "," "," ","|">>
        ELSE <<" ","|"," "," ","R","U","N"," "," ","|">>)

RECURSIVE RowLines(_, _, _)
RowLines(rows, w, k) ==
    IF k > Len(rows) THEN <<>>
    ELSE <<RowLine(rows[k], w), BorderLine(w)>> \o RowLines(rows, w, k + 1)

ListTable(rows) ==
    Let(ColumnWidth(rows, 1), LAMBDA w :
        <<BorderLine(w), HeaderLine(w), BorderLine(w)>> \o RowLines(rows, w, 1))

DiscoveryInit ==
    /\ script \in {BACKUP, BCKUP}
    /\ STATEFUL_SNAPSHOTS = FALSE
    /\ clock = StartClock
    /\ dir_ready = TRUE
    /\ pc = "get_vm_names"
    /\ vm_names = <<>>
    /\ idx = 0
    /\ timestamp = <<>>
    /\ \E rows \in ListedRows :
         call = [fn |-> "none", vm |-> <<>>, exc |-> "none", cmds |-> <<>>, log |-> <<>>,
                 data |-> [rows |-> rows]]
    /\ issued = {}
    /\ outcome = [vm \in InstanceNames |-> [snapshot |-> "none", export |-> "none"]]
    /\ main_log = {}
    /\ written = {}
    /\ prune_runs = 0

\* main, line 251: vm_names = get_vm_names()
DiscoveryGetVmNames ==
    /\ pc = "get_vm_names"
    /\ call.fn = "none"
    /\ \E rc \in RCs, stdout \in { ListTable(call.data.rows) } :
         \E r \in { get_vm_names(rc, stdout) } :
         LET c == <<Cmd("list", <<>>, <<>>, FALSE, rc)>> IN
         /\ call' = Call("get_vm_names", <<>>, r @@ [cmds |-> c],
                         [rows |-> call.data.rows, stdout |-> stdout, vm_names |-> r.vm_names])
         /\ issued' = Issue(c)
         /\ IF r.exc # "none"
            THEN /\ pc' = "crashed"
                 /\ vm_names' = vm_names
            ELSE /\ pc' = "returned"
                 /\ vm_names' \in Orders(r.vm_names)
    /\ UNCHANGED <<script, STATEFUL_SNAPSHOTS, clock, dir_ready, idx, timestamp,
                   outcome, main_log, written, prune_runs>>

DiscoveryNext == DiscoveryGetVmNames

SpecDiscovery == DiscoveryInit /\ [][DiscoveryNext]_vars

(***************************************************************************)
(* Two runs of one script on one host, started by anything (two cron       *)
(* entries, a timer and an operator): each is the process of main from     *)
(* line 256 on, for the same one-instance list.  The scripts take no lock  *)
(* and look at no pid file, so the steps of the two processes interleave   *)
(* freely.  Here the clock is a datetime with microseconds, and pc,        *)
(* timestamp and call hold one value per run.  'incus export' runs for a   *)
(* while: it is issued in one step and returns in another.                 *)
(***************************************************************************)
Runs == {1, 2}
MaxTicks == 3

NotStarted == [secs |-> 0, us |-> 0]

TwoRunsInit ==
    /\ script \in {BACKUP, BCKUP}
    /\ STATEFUL_SNAPSHOTS = FALSE
    /\ clock = [secs |-> StartClock, us |-> 0]
    /\ dir_ready = TRUE
    /\ pc = [r \in Runs |-> "timestamp"]
    /\ vm_names \in { <<vm>> : vm \in InstanceNames }
    /\ idx = 1
    /\ timestamp = [r \in Runs |-> <<>>]
    /\ call = [r \in Runs |-> [fn |-> "none", vm |-> <<>>, exc |-> "none", cmds |-> <<>>,
                                log |-> <<>>, data |-> [read_at |-> NotStarted]]]
    /\ issued = {}
    /\ outcome = [vm \in InstanceNames |-> [snapshot |-> "none", export |-> "none"]]
    /\ main_log = {}
    /\ written = {}
    /\ prune_runs = 0

\* half a second passes
TwoRunsTick ==
    /\ 2 * (clock.secs - StartClock) + clock.us \div 500000 < MaxTicks
    /\ clock' = IF clock.us = 0 THEN [secs |-> clock.secs, us |-> 500000]
                ELSE [secs |-> clock.secs + 1, us |-> 0]
    /\ UNCHANGED <<script, STATEFUL_SNAPSHOTS, dir_ready, pc, vm_names, idx, timestamp,
                   call, issued, outcome, main_log, written, prune_runs>>

\* main, line 256
TwoRunsTimestamp(r) ==
    /\ pc[r] = "timestamp"
    /\ timestamp' = [timestamp EXCEPT ![r] = strftime(clock)]
    /\ call' = [call EXCEPT ![r].data = [read_at |-> clock]]
    /\ pc' = [pc EXCEPT ![r] = "prune_old_snapshots"]
    /\ UNCHANGED <<script, STATEFUL_SNAPSHOTS, clock, dir_ready, vm_names, idx,
                   issued, outcome, main_log, written, prune_runs>>

\* main, lines 260-265, for an instance that has no snapshot yet
TwoRunsPruneOldSnapshots(r) ==
    /\ pc[r] = "prune_old_snapshots"
    /\ \E vm \in { vm_names[idx] } :
       \E res \in IF script = BACKUP
                  THEN { prune_old_snapshots(vm, RETENTION_DAYS, rc,
                                             [kind |-> "list", snaps |-> <<>>], <<>>,
                                             [secs |-> clock.secs - UTC_OFFSET, us |-> clock.us]) :
                           rc \in RCs }
                  ELSE { prune_old_snapshots_bckup(vm, RETENTION_DAYS) } :
         /\ call' = [call EXCEPT ![r] = Call("prune_old_snapshots", vm, res, call[r].data)]
         /\ issued' = issued \cup { [run |-> r, cmd |-> c] : c \in Range(res.cmds) }
         /\ main_log' = main_log \cup {Log("info", "Processing VM", vm)}
                        \cup (IF res.exc # "none" /\ caught(res.exc)
                              THEN {Log("error", "Error during snapshot pruning", vm)} ELSE {})
    /\ pc' = [pc EXCEPT ![r] = "snapshot_vm"]
    /\ UNCHANGED <<script, STATEFUL_SNAPSHOTS, clock, dir_ready, vm_names, idx,
                   timestamp, outcome, written, prune_runs>>

\* main, lines 267-270 and 272-273
TwoRunsSnapshotVm(r) ==
    /\ pc[r] = "snapshot_vm"
    /\ \E vm \in { vm_names[idx] }, rc \in RCs :
       \E res \in { IF script = BACKUP
                    THEN snapshot_vm(vm, snapshot_name(timestamp[r]), STATEFUL_SNAPSHOTS, rc, rc)
                    ELSE snapshot_vm_bckup(vm, snapshot_name(timestamp[r]), rc) } :
         /\ call' = [call EXCEPT ![r] = Call("snapshot_vm", vm, res, call[r].data)]
         /\ issued' = issued \cup { [run |-> r, cmd |-> c] : c \in Range(res.cmds) }
         /\ IF res.exc = "none"
            THEN /\ pc' = [pc EXCEPT ![r] = "export_vm"]
                 /\ main_log' = main_log
            ELSE /\ pc' = [pc EXCEPT ![r] = "done"]
                 /\ main_log' = main_log \cup {Log("error", "Skipping export", vm)}
    /\ UNCHANGED <<script, STATEFUL_SNAPSHOTS, clock, dir_ready, vm_names, idx,
                   timestamp, outcome, written, prune_runs>>

\* main, lines 268 and 271, and export_vm up to the start of 'incus export'
TwoRunsExportIssued(r) ==
    /\ pc[r] = "export_vm"
    /\ \E vm \in { vm_names[idx] } :
       \E path \in { backup_file(vm, timestamp[r]) } :
         /\ call' = [call EXCEPT ![r] =
                        [fn |-> "export_vm", vm |-> vm, exc |-> "none", cmds |-> <<>>,
                         log |-> <<Log("info", "Exporting VM", vm)>>,
                         data |-> [read_at |-> call[r].data.read_at, backup_path |-> path]]]
    /\ pc' = [pc EXCEPT ![r] = "incus export"]
    /\ UNCHANGED <<script, STATEFUL_SNAPSHOTS, clock, dir_ready, vm_names, idx,
                   timestamp, issued, outcome, main_log, written, prune_runs>>

\* export_vm from the return of 'incus export' on, and main, lines 272-273
TwoRunsExportReturned(r) ==
    /\ pc[r] = "incus export"
    /\ \E rc \in RCs, file_exists \in BOOLEAN :
       \E res \in { export_vm(call[r].vm, call[r].data.backup_path, rc, file_exists, 0) } :
         /\ rc # "ok" => ~file_exists
         /\ call' = [call EXCEPT ![r] = Call("export_vm", call[r].vm, res, call[r].data)]
         /\ issued' = issued \cup { [run |-> r, cmd |-> c] : c \in Range(res.cmds) }
         /\ written' = IF file_exists THEN written \cup {basename(call[r].data.backup_path)}
                       ELSE written
         /\ main_log' = IF res.exc = "none" THEN main_log
                        ELSE main_log \cup {Log("error", "Skipping export", call[r].vm)}
    /\ pc' = [pc EXCEPT ![r] = "done"]
    /\ UNCHANGED <<script, STATEFUL_SNAPSHOTS, clock, dir_ready, vm_names, idx,
                   timestamp, outcome, prune_runs>>

TwoRunsNext ==
    \/ TwoRunsTick
    \/ \E r \in Runs : TwoRunsTimestamp(r)
    \/ \E r \in Runs : TwoRunsPruneOldSnapshots(r)
    \/ \E r \in Runs : TwoRunsSnapshotVm(r)
    \/ \E r \in Runs : TwoRunsExportIssued(r)
    \/ \E r \in Runs : TwoRunsExportReturned(r)

SpecTwoRuns == TwoRunsInit /\ [][TwoRunsNext]_vars

(***************************************************************************)
(* The run's own archives at the pruning pass: a run of incus-backup.py    *)
(* over one or two instances whose snapshots succeed, on a wall clock that *)
(* is read to the microsecond.  An export takes anything from no time to   *)
(* a little over the retention window, and the backup directory holds      *)
(* nothing but the run's archives.                                         *)
(***************************************************************************)
\* dt + timedelta(seconds=d.secs, microseconds=d.us)
PlusDelta(dt, d) ==
    Let(dt.us + d.us, LAMBDA us :
        [secs |-> dt.secs + d.secs + us \div 1000000, us |-> us % 1000000])

\* the instants at which main is entered
OwnStarts == { [secs |-> StartClock, us |-> us] : us \in {0, 500000, 750000} }

\* how long lines 243-255 take
OwnPreambles == { [secs |-> 0, us |-> us] : us \in {0, 250000} }

\* how long one 'incus export' takes
OwnDurations ==
    Let(BACKUP_RETENTION_DAYS * 86400, LAMBDA window :
        { [secs |-> 0, us |-> 0], [secs |-> 1, us |-> 0],
          [secs |-> window - 1, us |-> 0], [secs |-> window - 1, us |-> 500000],
          [secs |-> window - 1, us |-> 750000],
          [secs |-> window, us |-> 0], [secs |-> window, us |-> 250000] })

OwnVmNames ==
    { <<vm>> : vm \in RoundTripNames }
        \cup { <<a, b>> : a \in {WEB1}, b \in RoundTripNames \ {WEB1} }

OwnInit ==
    /\ script = BACKUP
    /\ STATEFUL_SNAPSHOTS = FALSE
    /\ clock \in OwnStarts
    /\ dir_ready = TRUE
    /\ pc = "timestamp"
    /\ vm_names \in OwnVmNames
    /\ idx = 1
    /\ timestamp = <<>>
    /\ call = [fn |-> "main", vm |-> <<>>, exc |-> "none", cmds |-> <<>>, log |-> <<>>,
               data |-> [started_at |-> clock, read_at |-> NotStarted]]
    /\ issued = {}
    /\ outcome = [vm \in InstanceNames |-> [snapshot |-> "none", export |-> "none"]]
    /\ main_log = {}
    /\ written = {}
    /\ prune_runs = 0

\* main, lines 243-257
OwnTimestamp ==
    /\ pc = "timestamp"
    /\ \E d \in OwnPreambles :
       \E read_at \in { PlusDelta(clock, d) } :
         /\ clock' = read_at
         /\ timestamp' = strftime(read_at)
         /\ call' = [call EXCEPT !.data.read_at = read_at]
    /\ pc' = "export_vm"
    /\ UNCHANGED <<script, STATEFUL_SNAPSHOTS, dir_ready, vm_names, idx,
                   issued, outcome, main_log, written, prune_runs>>

\* main, lines 259-273, for an instance whose snapshot is taken
OwnExportVm ==
    /\ pc = "export_vm"
    /\ \E vm \in {vm_names[idx]} :
       \E path \in {backup_file(vm, timestamp)} :
       \E rc \in RCs, file_exists \in BOOLEAN, d \in OwnDurations :
         \E r \in { export_vm(vm, path, rc, file_exists,
                              IF d.secs = 0 /\ d.us = 0 THEN 0 ELSE 1) } :
         /\ rc # "ok" => ~file_exists
         /\ ~file_exists => d.secs = 0 /\ d.us = 0
         /\ call' = Call("export_vm", vm, r,
                         [started_at |-> call.data.started_at,
                          read_at |-> call.data.read_at, file_exists |-> file_exists])
         /\ clock' = PlusDelta(clock, d)
         /\ issued' = Issue(r.cmds)
         /\ written' = IF file_exists THEN written \cup {basename(path)} ELSE written
         /\ outcome' = [outcome EXCEPT ![vm] = [snapshot |-> "ok", export |->
                           IF rc # "ok" THEN "failed"
                           ELSE IF file_exists THEN "ok" ELSE "no file"]]
         /\ main_log' = IF r.exc = "none" THEN main_log
                        ELSE main_log \cup {Log("error", "Skipping export", vm)}
         /\ pc' = IF idx < Len(vm_names) THEN "export_vm" ELSE "prune_old_backups"
         /\ idx' = IF idx < Len(vm_names) THEN idx + 1 ELSE idx
    /\ UNCHANGED <<script, STATEFUL_SNAPSHOTS, dir_ready, vm_names, timestamp,
                   prune_runs>>

\* main, line 275
OwnPruneOldBackups ==
    /\ pc = "prune_old_backups"
    /\ \E r \in { prune_old_backups(written, {}, clock) } :
         /\ call' = Call("prune_old_backups", <<>>, r @@ [cmds |-> <<>>],
                         [started_at |-> call.data.started_at,
                          read_at |-> call.data.read_at,
                          listdir |-> written, verdict |-> r.verdict,
                          file_date |-> r.file_date, cutoff |-> r.cutoff,
                          deleted_count |-> r.deleted_count,
                          error_count |-> r.error_count])
         /\ issued' = IF \E f \in written : r.verdict[f] \in {"removed", "error deleting"}
                      THEN issued \cup {"os.remove"} ELSE issued
         /\ written' = { f \in written : r.verdict[f] # "removed" }
    /\ prune_runs' = prune_runs + 1
    /\ pc' = "done"
    /\ UNCHANGED <<script, STATEFUL_SNAPSHOTS, clock, dir_ready, vm_names, idx,
                   timestamp, outcome, main_log>>

OwnNext == OwnTimestamp \/ OwnExportVm \/ OwnPruneOldBackups

SpecOwnArchives == OwnInit /\ [][OwnNext]_vars

(***************************************************************************)
(* Vocabulary of the properties.                                           *)
(***************************************************************************)
\* the instants of the catalogue's snapshots, written down independently of
\* any parsing
SnapInstant ==
    (<<"s","1">> :> datetime(2024, 2, 20, 0, 0, 0, 0)) @@
    (<<"s","2">> :> datetime(2024, 2, 27, 0, 0, 0, 0)) @@
    (<<"s","3">> :> datetime(2024, 2, 23, 5, 0, 0, 0)) @@
    (<<"s","4">> :> datetime(2024, 2, 23, 4, 59, 59, 500000))

\* a file name of the form <anything>-<14 decimal digits>.tar.gz
WellNamed(f) == /\ Len(f) >= 22
                /\ endswith(f, TARGZ)
                /\ f[Len(f) - 21] = "-"
                /\ AllDigits(f, Len(f) - 20, 14)

\* the 14 characters in front of .tar.gz, read by position
StampOf(f) == SubSeq(f, Len(f) - 20, Len(f) - 7)
StampIsDate(T) ==
    /\ Num(SubSeq(T, 5, 6)) \in 1..12
    /\ Num(SubSeq(T, 7, 8)) \in 1..DaysInMonth(Num(SubSeq(T, 1, 4)), Num(SubSeq(T, 5, 6)))
    /\ Num(SubSeq(T, 9, 10)) <= 23
    /\ Num(SubSeq(T, 11, 12)) <= 59
    /\ Num(SubSeq(T, 13, 14)) <= 59
StampInstant(T) ==
    datetime(Num(SubSeq(T, 1, 4)), Num(SubSeq(T, 5, 6)), Num(SubSeq(T, 7, 8)),
             Num(SubSeq(T, 9, 10)), Num(SubSeq(T, 11, 12)), Num(SubSeq(T, 13, 14)), 0)

Position(vm) == CHOOSE k \in 1..Len(vm_names) : vm_names[k] = vm
Logged(q, level, msg) == \E k \in 1..Len(q) : q[k].level = level /\ q[k].msg = msg
DeleteIssued(vm, name) ==
    \E k \in 1..Len(call.cmds) : /\ call.cmds[k].op = "snapshot delete"
                                 /\ call.cmds[k].vm = vm
                                 /\ call.cmds[k].arg = name
\* main has started the sub-sequence of an instance
Started(vm) == Log("info", "Processing VM", vm) \in main_log
\* the sub-sequence of an instance is over
Finished(vm) == /\ Started(vm)
                /\ outcome[vm].snapshot # "none"
                /\ outcome[vm].snapshot = "ok" => outcome[vm].export # "none"
LoopOver == pc \in {"prune_old_backups", "done"}

(***************************************************************************)
(* C1: in snapshot_vm with stateful snapshots requested, whenever the      *)
(* stateful 'snapshot create' command fails, exactly one further           *)
(* 'snapshot create' is issued for the same instance with the same         *)
(* snapshot name and without the stateful flag, the fallback is logged,    *)
(* and if the retry succeeds snapshot_vm returns success.                  *)
(***************************************************************************)
C1_StatefulFailureRetriedStateless ==
    (/\ call.fn = "snapshot_vm"
     /\ call.cmds[1].stateful
     /\ call.cmds[1].rc # "ok")
    => /\ Len(call.cmds) = 2
       /\ call.cmds[2].op = "snapshot create"
       /\ call.cmds[2].vm = call.vm
       /\ call.cmds[2].arg = call.cmds[1].arg
       /\ ~call.cmds[2].stateful
       /\ Logged(call.log, "warning", "Stateful snapshot failed, attempting stateless")
       /\ call.cmds[2].rc = "ok" => call.exc = "none"

C1_Witness ==
    /\ call.fn = "snapshot_vm"
    /\ STATEFUL_SNAPSHOTS
    /\ Len(call.cmds) = 1
    /\ call.cmds[1].stateful
    /\ call.cmds[1].rc = "fail"
    /\ call.exc = "RuntimeError"
    /\ Logged(call.log, "error", "Unexpected error during snapshot")
    /\ outcome[call.vm].snapshot = "failed"

(***************************************************************************)
(* C2: for every instance of a run, if snapshot creation ultimately fails  *)
(* no export command is issued for that instance, the failure does not     *)
(* leave main, and the next instance of the list is processed.             *)
(***************************************************************************)
C2_SnapshotFailureSkipsExport ==
    /\ \A vm \in InstanceNames : outcome[vm].snapshot = "failed" => outcome[vm].export = "none"
    /\ (call.fn = "snapshot_vm" /\ call.cmds[Len(call.cmds)].rc # "ok")
       => /\ pc # "crashed"
          /\ pc # "export_vm"
          /\ IF Position(call.vm) < Len(vm_names)
             THEN pc = "prune_old_snapshots" /\ idx = Position(call.vm) + 1
             ELSE LoopOver
    /\ LoopOver => \A k \in 1..Len(vm_names) : Started(vm_names[k])

C2_Witness ==
    /\ pc = "done"
    /\ Len(vm_names) = 2
    /\ outcome[vm_names[1]].snapshot = "failed"
    /\ outcome[vm_names[1]].export = "none"
    /\ outcome[vm_names[2]].export = "ok"

C4_OtherNamesNeverRemoved ==
    call.fn = "prune_old_backups"
    => \A f \in call.data.listdir : ~WellNamed(f) => call.data.verdict[f] # "removed"

C4_Witness ==
    /\ call.fn = "prune_old_backups"
    /\ \E f \in call.data.listdir :
         /\ ~contains(f, "-")
         /\ call.data.verdict[f] = "removed"
    /\ \E f \in call.data.listdir :
         /\ Len(split(f, ".")) = 4
         /\ call.data.verdict[f] = "removed"
    /\ call.data.deleted_count = 2

(***************************************************************************)
(* C5: prune_old_backups removes a file named                              *)
(* <instance>-<YYYYMMDDHHMMSS>.tar.gz if its timestamp is strictly older   *)
(* than cutoff = now - archive_retention_days (os.remove is called on it,  *)
(* and the file is gone unless os.remove itself fails), and leaves it in   *)
(* place if the timestamp is at or after the cutoff.                       *)
(***************************************************************************)
C5_ArchiveRemovedIffOlderThanCutoff ==
    call.fn = "prune_old_backups"
    => \A f \in call.data.listdir :
         (WellNamed(f) /\ StampIsDate(StampOf(f)))
         => LET cutoff == [secs |-> clock - BACKUP_RETENTION_DAYS * 86400, us |-> 0] IN
            IF DtLess(StampInstant(StampOf(f)), cutoff)
            THEN call.data.verdict[f] = (IF f \in call.data.unremovable
                                         THEN "error deleting" ELSE "removed")
            ELSE call.data.verdict[f] = "kept"

C5_Witness ==
    /\ call.fn = "prune_old_backups"
    /\ clock = StartClock
    /\ LET old    == WEB1 \o <<"-">> \o Stamp(2024, 1, 1, 0, 0, 0) \o TARGZ
           recent == WEB1 \o <<"-">> \o Stamp(2024, 2, 20, 0, 0, 0) \o TARGZ
       IN /\ {old, recent} \subseteq call.data.listdir
          /\ call.data.verdict[old] = "removed"
          /\ call.data.verdict[recent] = "kept"

(***************************************************************************)
(* C6: the archive file name main builds for an instance,                  *)
(* <instance>-<T>.tar.gz with T the run timestamp, is decoded by           *)
(* prune_old_backups to exactly T, without a parse error, also when the    *)
(* instance name contains hyphens or dots.                                 *)
(***************************************************************************)
C6_ArchiveNameRoundTrip ==
    call.fn = "prune_old_backups"
    => \A k \in 1..Len(vm_names) :
         LET f == vm_names[k] \o <<"-">> \o timestamp \o TARGZ IN
         f \in call.data.listdir
         => /\ call.data.file_date[f].ok
            /\ call.data.file_date[f].secs = StampInstant(timestamp).secs
            /\ call.data.file_date[f].us = 0
            /\ strftime(call.data.file_date[f]) = timestamp

C6_Witness ==
    /\ call.fn = "prune_old_backups"
    /\ vm_names = <<MYVM>>
    /\ contains(MYVM, "-") /\ contains(MYVM, ".")
    /\ timestamp = Stamp(2024, 2, 29, 23, 59, 59)
    /\ call.data.listdir = { MYVM \o <<"-">> \o timestamp \o TARGZ }
    /\ call.data.file_date[MYVM \o <<"-">> \o timestamp \o TARGZ].secs = clock

(***************************************************************************)
(* C7: when the export command reports success but the destination file    *)
(* does not exist afterwards, the export is treated as failed: the caller  *)
(* observes the same failure outcome as for a command error, and the run   *)
(* proceeds to the next instance without crashing.                         *)
(***************************************************************************)
C7_MissingFileIsExportFailure ==
    (/\ call.fn = "export_vm"
     /\ call.cmds[1].rc = "ok"
     /\ ~call.data.file_exists)
    => /\ call.exc # "none"
       /\ Log("error", "Skipping export", call.vm) \in main_log
       /\ pc # "crashed"

C7_Witness ==
    /\ call.fn = "export_vm"
    /\ call.cmds[1].rc = "ok"
    /\ ~call.data.file_exists
    /\ call.exc = "none"
    /\ Logged(call.log, "error", "Backup file not found after export")
    /\ Log("error", "Skipping export", call.vm) \notin main_log
    /\ basename(call.cmds[1].arg) \notin written

(***************************************************************************)
(* C8: in every run that reaches per-instance processing the global        *)
(* archive pruning pass runs exactly once, and only after the last         *)
(* instance's sub-sequence has finished, whatever failed for the           *)
(* individual instances.                                                   *)
(***************************************************************************)
C8_GlobalPruneExactlyOnce ==
    /\ prune_runs <= 1
    /\ prune_runs = 1 => \A k \in 1..Len(vm_names) : Finished(vm_names[k])
    /\ pc = "done" => prune_runs = 1

C8_Witness ==
    /\ script = BCKUP
    /\ pc = "done"
    /\ Len(vm_names) = 2
    /\ \A k \in 1..Len(vm_names) : Finished(vm_names[k])
    /\ outcome[vm_names[2]].export = "ok"
    /\ prune_runs = 0
    /\ "os.remove" \notin issued

(***************************************************************************)
(* C9: for every discovered instance the sub-sequence (snapshot prune,     *)
(* snapshot create, export) is started whatever error was raised while an  *)
(* earlier instance was processed; no such error ends the loop or leaves   *)
(* main.                                                                   *)
(***************************************************************************)
C9_PerInstanceIsolation ==
    /\ idx >= 1 => pc \notin {"crashed", "aborted"}
    /\ \A k \in 1..Len(vm_names) :
         (k < idx \/ (k = idx /\ pc # "prune_old_snapshots")) => Started(vm_names[k])
    /\ LoopOver => idx = Len(vm_names)

C9_Witness ==
    /\ LoopOver
    /\ Len(vm_names) = 2
    /\ outcome[vm_names[1]].export = "failed"
    /\ Log("error", "Skipping export", vm_names[1]) \in main_log
    /\ Log("error", "Error during snapshot pruning", vm_names[1]) \in main_log
    /\ Finished(vm_names[2])

(***************************************************************************)
(* C10: a run ends in the early aborted state only if the backup directory *)
(* cannot be prepared or instance discovery returns no instance; and when  *)
(* the backup directory cannot be created the run aborts before any        *)
(* instance work: no command is issued and no archive is deleted.          *)
(***************************************************************************)
C10_AbortOnlyBeforeInstanceWork ==
    /\ pc = "aborted"
       => \/ call.fn = "check_backup_dir" /\ ~dir_ready
          \/ call.fn = "get_vm_names" /\ call.data.vm_names = {} /\ vm_names = <<>>
    /\ (~dir_ready /\ pc # "check_backup_dir")
       => /\ pc = "aborted"
          /\ issued = {}
          /\ written = {}
          /\ prune_runs = 0
          /\ idx = 0

C10_Witness ==
    /\ pc = "aborted"
    /\ ~dir_ready
    /\ call.fn = "check_backup_dir"
    /\ call.exc = "RuntimeError"

(***************************************************************************)
(* C11: whenever the list-instances query fails, be it that the command    *)
(* exits with an error or that the incus binary cannot be executed at all, *)
(* get_vm_names returns an empty result and logs the error, and the run    *)
(* ends early with a logged reason; no exception leaves main.              *)
(***************************************************************************)
C11_ListFailureEndsRunEarly ==
    (call.fn = "get_vm_names" /\ call.cmds[1].rc # "ok")
    => /\ call.exc = "none"
       /\ call.data.vm_names = {}
       /\ Logged(call.log, "error", "Error running 'incus list'")
       /\ pc = "aborted"
       /\ Log("error", "No VMs found or error retrieving instance list", <<>>) \in main_log

C11_Witness ==
    /\ call.fn = "get_vm_names"
    /\ call.cmds[1].rc = "noexec"
    /\ call.exc = "FileNotFoundError"
    /\ call.log = <<>>
    /\ pc = "crashed"
    /\ main_log = {}

(***************************************************************************)
(* C12: for every whole second S and every string F of 0 to 9 or more      *)
(* decimal digits, the pruning of snapshots parses the created_at string   *)
(* 'S.FZ' to S plus the microseconds that F, cut to 6 digits or filled     *)
(* with zeros on the right to 6 digits, denotes, and parses a string       *)
(* without a fraction to S; strings whose fractions agree after that       *)
(* adjustment so give the same datetime, and the same decision to delete.  *)
(***************************************************************************)
FracMicros(F) ==
    LET d(k) == IF k <= Len(F) THEN DigitVal(F[k]) ELSE 0
    IN d(1) * 100000 + d(2) * 10000 + d(3) * 1000 + d(4) * 100 + d(5) * 10 + d(6)

ExpectedCreatedAt(c) ==
    datetime(c.at[1], c.at[2], c.at[3], c.at[4], c.at[5], c.at[6],
             IF c.dotted THEN FracMicros(c.frac) ELSE 0)

C12_FractionNormalized ==
    (call.fn = "prune_old_snapshots" /\ "input" \in DOMAIN call.data)
    => LET expected == ExpectedCreatedAt(call.data.input)
           cutoff   == [secs |-> clock - UTC_OFFSET - RETENTION_DAYS * 86400, us |-> 0]
       IN /\ call.data.created_at.ok
          /\ call.data.created_at.secs = expected.secs
          /\ call.data.created_at.us = expected.us
          /\ DeleteIssued(call.vm, call.data.snap.name) <=> DtLess(expected, cutoff)

C12_Witness ==
    /\ script = BCKUP
    /\ call.fn = "prune_old_snapshots"
    /\ "input" \in DOMAIN call.data
    /\ call.data.input.frac = <<"5">>
    /\ call.exc = "NameError"
    /\ ~call.data.created_at.ok
    /\ call.cmds = <<>>

(***************************************************************************)
(* C13: for every instance a run processes, every block volume associated  *)
(* with the instance is exported to its own archive in that run, and these *)
(* exports are attempted whether or not the export of the instance itself  *)
(* succeeded.                                                              *)
(*                                                                         *)
(* The storage volumes are those of the host the run works on: custom      *)
(* volumes of a pool, each with its project, content type and the          *)
(* references of the instances that use it.                                *)
(***************************************************************************)
PROJECT == "default"

InstanceRef(vm) == <<"/","1",".","0","/","i","n","s","t","a","n","c","e","s","/">> \o vm

StorageVolumes ==
    { [name |-> "data1", project |-> "default", type |-> "custom", content_type |-> "block",
       used_by |-> {InstanceRef(WEB1)}],
      [name |-> "shared", project |-> "default", type |-> "custom", content_type |-> "block",
       used_by |-> {InstanceRef(WEB1), InstanceRef(MYVM)}],
      [name |-> "files", project |-> "default", type |-> "custom", content_type |-> "filesystem",
       used_by |-> {InstanceRef(WEB1)}],
      [name |-> "lab1", project |-> "lab", type |-> "custom", content_type |-> "block",
       used_by |-> {InstanceRef(MYVM)}] }

BlockVolumesOf(vm) ==
    { v \in StorageVolumes : /\ v.project = PROJECT
                             /\ v.type = "custom"
                             /\ v.content_type = "block"
                             /\ \E ref \in v.used_by : basename(ref) = vm }

C13_BlockVolumesExported ==
    \A k \in 1..Len(vm_names) :
      (LoopOver /\ Finished(vm_names[k]) /\ BlockVolumesOf(vm_names[k]) # {})
      => "storage volume export" \in issued

C13_Witness ==
    /\ pc = "done"
    /\ vm_names = <<WEB1, MYVM>>
    /\ outcome[WEB1].export = "ok"
    /\ outcome[MYVM].export = "failed"
    /\ Cardinality(BlockVolumesOf(WEB1)) = 2
    /\ Cardinality(BlockVolumesOf(MYVM)) = 1
    /\ issued \subseteq {"list", "snapshot list", "snapshot delete", "snapshot create",
                         "export", "os.remove"}

(***************************************************************************)
(* C15: for every table the list-instances command prints, get_vm_names    *)
(* returns exactly the distinct non-empty NAME cells of the data rows,     *)
(* each once: the header row, the border lines and the rows whose NAME     *)
(* cell is blank contribute nothing, every other row contributes its name. *)
(***************************************************************************)
C15_NamesOfDataRows ==
    (call.fn = "get_vm_names" /\ "rows" \in DOMAIN call.data /\ call.cmds[1].rc = "ok")
    => /\ Range(vm_names) = Range(call.data.rows) \ {<<>>}
       /\ \A a, b \in 1..Len(vm_names) : a # b => vm_names[a] # vm_names[b]

C15_Witness ==
    /\ call.fn = "get_vm_names"
    /\ "rows" \in DOMAIN call.data
    /\ call.cmds[1].rc = "ok"
    /\ call.data.rows = <<WEB1, NAME>>
    /\ vm_names = <<WEB1>>
    /\ pc = "returned"

(***************************************************************************)
(* C16: for every list of snapshots, prune_old_snapshots logs and skips a  *)
(* snapshot whose created_at is missing or cannot be parsed, logs a delete *)
(* command that fails, and still issues the delete of every snapshot of    *)
(* the list that is strictly older than the cutoff; the pass as a whole    *)
(* does not fail.                                                          *)
(***************************************************************************)
LogHas(q, level, msg, arg) == \E k \in 1..Len(q) : q[k] = Log(level, msg, arg)
DeleteFailed(vm, name) ==
    \E k \in 1..Len(call.cmds) : /\ call.cmds[k] \in { Cmd("snapshot delete", vm, name, FALSE, rc) :
                                                        rc \in RCs \ {"ok"} }

C16_PerSnapshotIsolation ==
    (call.fn = "prune_old_snapshots" /\ (call.data.listed \/ script = BCKUP))
    => /\ call.exc = "none"
       /\ \A k \in 1..Len(call.data.snapshots) :
            LET snap   == call.data.snapshots[k]
                cutoff == [secs |-> clock - UTC_OFFSET - RETENTION_DAYS * 86400, us |-> 0]
            IN /\ "created_at" \notin DOMAIN snap
                  => /\ LogHas(call.log, "error", "Missing field in snapshot data", <<>>)
                     /\ ~DeleteIssued(call.vm, snap.name)
               /\ ("created_at" \in DOMAIN snap /\ snap.name \notin DOMAIN SnapInstant)
                  => /\ LogHas(call.log, "error", "Failed to parse timestamp", snap.created_at)
                     /\ ~DeleteIssued(call.vm, snap.name)
               /\ (snap.name \in DOMAIN SnapInstant /\ DtLess(SnapInstant[snap.name], cutoff))
                  => DeleteIssued(call.vm, snap.name)
               /\ DeleteFailed(call.vm, snap.name)
                  => LogHas(call.log, "error", "Error processing snapshot", snap.name)

C16_Witness ==
    /\ script = BCKUP
    /\ call.fn = "prune_old_snapshots"
    /\ call.exc = "NameError"
    /\ call.cmds = <<>>
    /\ call.log = <<>>
    /\ Log("error", "Error during snapshot pruning", call.vm) \in main_log

(***************************************************************************)
(* C17: in prune_old_backups a file whose timestamp cannot be parsed, or   *)
(* that os.remove fails on, stays in place and is counted once in the      *)
(* error count, and the scan goes on: every other expired, well-named file *)
(* is still removed.  The summary logged at the end gives as deleted the   *)
(* number of files removed and as errors the number of files that failed   *)
(* to parse or to delete.                                                  *)
(***************************************************************************)
C17_PerFileIsolationAndCounts ==
    call.fn = "prune_old_backups"
    => LET d        == call.data
           unparsed == { f \in d.listdir : endswith(f, TARGZ) /\ ~d.file_date[f].ok }
           failed   == unparsed \cup d.unremovable
           removed  == { f \in d.listdir : d.verdict[f] = "removed" }
           cutoff   == [secs |-> clock - BACKUP_RETENTION_DAYS * 86400, us |-> 0]
       IN /\ call.exc = "none"
          /\ removed \cap failed = {}
          /\ \A f \in d.listdir :
               (WellNamed(f) /\ StampIsDate(StampOf(f)) /\ f \notin d.unremovable
                /\ DtLess(StampInstant(StampOf(f)), cutoff)) => f \in removed
          /\ d.deleted_count = Cardinality(removed)
          /\ d.error_count = Cardinality(failed)
          /\ call.log[Len(call.log)] =
               [level |-> "info", msg |-> "Backup pruning complete", arg |-> <<>>,
                deleted |-> Cardinality(removed), errors |-> Cardinality(failed)]

C17_Witness ==
    /\ call.fn = "prune_old_backups"
    /\ clock = StartClock
    /\ LET old == WEB1 \o <<"-">> \o Stamp(2024, 1, 1, 0, 0, 0) \o TARGZ
           bad == WEB1 \o <<"-">> \o Stamp(2024, 1, 1, 0, 0, 0) \o <<"0">> \o TARGZ
       IN /\ {old, bad} \subseteq call.data.listdir
          /\ call.data.verdict[bad] = "invalid timestamp"
          /\ call.data.verdict[old] = "removed"
          /\ call.data.deleted_count = 1
          /\ call.data.error_count = 1

(***************************************************************************)
(* C18: nothing keeps two runs from executing at the same time, and two    *)
(* runs that read the clock within the same second compute the same        *)
(* snapshot name and the same archive path for an instance; so both can be *)
(* exporting the same instance to the same file.                           *)
(***************************************************************************)
SameSecond(a, b) ==
    /\ call[a].data.read_at # NotStarted
    /\ call[b].data.read_at # NotStarted
    /\ call[a].data.read_at.secs = call[b].data.read_at.secs

C18_SameSecondSameNames ==
    \A a, b \in Runs :
      SameSecond(a, b)
      => /\ timestamp[a] = timestamp[b]
         /\ \A x, y \in issued :
              (x.run = a /\ y.run = b /\ x.cmd.op = y.cmd.op
               /\ x.cmd.op \in {"snapshot create", "export"})
              => x.cmd.vm = y.cmd.vm /\ x.cmd.arg = y.cmd.arg
         /\ (pc[a] = "incus export" /\ pc[b] = "incus export")
            => call[a].data.backup_path = call[b].data.backup_path

C18_Witness ==
    /\ pc[1] = "incus export"
    /\ pc[2] = "incus export"
    /\ call[1].data.read_at # call[2].data.read_at
    /\ call[1].vm = call[2].vm
    /\ call[1].data.backup_path = call[2].data.backup_path
    /\ \E x, y \in issued : /\ x.run = 1 /\ y.run = 2
                            /\ x.cmd.op = "snapshot create" /\ y.cmd.op = "snapshot create"
                            /\ x.cmd.arg = y.cmd.arg
                            /\ x.cmd.rc = "ok" /\ y.cmd.rc = "ok"

(***************************************************************************)
(* C19: when the pruning of an instance's snapshots fails (the listing     *)
(* command fails, its output is unusable, or prune_old_snapshots raises),  *)
(* the run still goes on to create the snapshot of that same instance and, *)
(* the snapshot taken, to export it.                                       *)
(***************************************************************************)
PruneFailed ==
    /\ call.fn = "prune_old_snapshots"
    /\ call.exc # "none" \/ ~call.data.listed

C19_PruneFailureKeepsInstanceGoing ==
    /\ PruneFailed => /\ pc = "snapshot_vm"
                      /\ vm_names[idx] = call.vm
                      /\ outcome[call.vm].snapshot = "none"
    /\ \A k \in 1..Len(vm_names) :
         (/\ Log("error", "Error during snapshot pruning", vm_names[k]) \in main_log
          /\ k < idx \/ LoopOver)
         => /\ outcome[vm_names[k]].snapshot # "none"
            /\ outcome[vm_names[k]].snapshot = "ok" => outcome[vm_names[k]].export # "none"

C19_Witness ==
    /\ LoopOver
    /\ Len(vm_names) = 1
    /\ Log("error", "Error during snapshot pruning", vm_names[1]) \in main_log
    /\ outcome[vm_names[1]].snapshot = "ok"
    /\ outcome[vm_names[1]].export = "ok"
    /\ {"snapshot create", "export"} \subseteq issued

(***************************************************************************)
(* C20: a run deletes no snapshot it has created itself: the instance      *)
(* names of the loop are pairwise different, snapshots are deleted only by *)
(* the prune pass and only for the instance being pruned, and the prune    *)
(* pass of an instance is over before the run creates that instance's      *)
(* snapshot-<timestamp>.                                                   *)
(***************************************************************************)
C20_PruneBeforeOwnSnapshot ==
    /\ \A a, b \in 1..Len(vm_names) : a # b => vm_names[a] # vm_names[b]
    /\ \A k \in 1..Len(call.cmds) :
         call.cmds[k].op = "snapshot delete"
         => /\ call.fn = "prune_old_snapshots"
            /\ call.cmds[k].vm = call.vm
    /\ call.fn = "prune_old_snapshots"
       => /\ outcome[call.vm].snapshot = "none"
          /\ pc = "snapshot_vm"
          /\ vm_names[idx] = call.vm

C20_Witness ==
    /\ script = BACKUP
    /\ call.fn = "prune_old_snapshots"
    /\ Len(vm_names) = 2
    /\ idx = 2
    /\ outcome[vm_names[1]].snapshot = "ok"
    /\ outcome[vm_names[2]].snapshot = "none"
    /\ DeleteIssued(vm_names[2], <<"s","1">>)
    /\ ~DeleteIssued(vm_names[1], <<"s","1">>)

(***************************************************************************)
(* C21.  Provided the archive retention is at least one day and the run    *)
(* lasts less than the retention window, no archive written by the run's   *)
(* exports is removed by the pruning pass of that same run.  Read with     *)
(* the run lasting from the entry of main to the end of the pruning pass,  *)
(* this is C21_OwnArchivesKept.  The name of an archive carries the        *)
(* instant at which main read the clock cut down to its whole second, so   *)
(* what the code guarantees is C21_OwnArchivesKeptFromTheStamp: the        *)
(* archives are kept when the pruning pass starts no later than the        *)
(* retention window after that whole second.                               *)
(***************************************************************************)
WholeSecond(dt) == [dt EXCEPT !.us = 0]

OwnPruned == pc = "done" /\ call.fn = "prune_old_backups"

OwnKept ==
    /\ written = call.data.listdir
    /\ \A f \in call.data.listdir : call.data.verdict[f] = "kept"

\* C21 as stated: a run that ends less than the retention window after main
\* was entered keeps every archive it wrote
C21_OwnArchivesKept ==
    ( /\ OwnPruned
      /\ BACKUP_RETENTION_DAYS >= 1
      /\ DtLess(MinusDays(clock, BACKUP_RETENTION_DAYS), call.data.started_at) )
    => OwnKept

\* C21 from the stamp: a pruning pass that starts no later than the retention
\* window after the whole second of the run's timestamp keeps every archive
\* the run wrote
C21_OwnArchivesKeptFromTheStamp ==
    ( /\ OwnPruned
      /\ BACKUP_RETENTION_DAYS >= 1
      /\ ~DtLess(WholeSecond(call.data.read_at), MinusDays(clock, BACKUP_RETENTION_DAYS)) )
    => OwnKept

\* two archives, the pruning pass exactly the retention window after the
\* second of the timestamp: both are kept
C21_Witness ==
    /\ OwnPruned
    /\ Cardinality(call.data.listdir) = 2
    /\ WholeSecond(call.data.read_at) = MinusDays(clock, BACKUP_RETENTION_DAYS)
    /\ OwnKept

====
